---------------------------- MODULE Spec2Model ----------------------------
(***************************************************************************)
(* State machine of src/src/App.js: the session identity kept in           *)
(* localStorage, the message thread, the busy flag, and the three remote   *)
(* calls (history, chat, session deletion) with their continuations.       *)
(* Every event handler is one atomic action: React commits the state       *)
(* updates of a handler before the next event is dispatched, and a         *)
(* handler's continuation after an await is a separate action that fires   *)
(* when the remote call settles.                                           *)
(***************************************************************************)
EXTENDS Integers, Sequences, FiniteSets, TLC

\* ------------------------------------------------------------ bounds
\* The clock (Date.now()) runs from 0 to MaxTime.
MaxTime == 2
\* The user types at most MaxSends messages that are accepted.
MaxSends == 2
\* The page is reloaded at most MaxReloads times.
MaxReloads == 1

\* ------------------------------------------------------------ values
\* A text is a sequence of tokens; an input text is a sequence of characters.
Texts == {<<>>, <<" ">>, <<" ", "a">>}

\* String.prototype.trim: strips the white space at both ends.
RECURSIVE TrimLeft(_)
TrimLeft(s) == IF s # <<>> /\ Head(s) = " " THEN TrimLeft(Tail(s)) ELSE s

RECURSIVE TrimRight(_)
TrimRight(s) ==
    IF s # <<>> /\ s[Len(s)] = " " THEN TrimRight(SubSeq(s, 1, Len(s) - 1)) ELSE s

Trim(s) == TrimRight(TrimLeft(s))

\* A faulty variant of InputIsBlank: the guard without the trim.
InputIsBlank_NoTrim(s) == s = <<>>

\* !input.trim(): the empty string is falsy.
InputIsBlank(s) == Trim(s) = <<>>

\* useState(''): the session id before initialisation.
NoSession == <<>>
\* localStorage.getItem of an absent key.
Null == <<"null">>
\* `session_${Date.now()}`
NewSessionId(t) == <<"session_", t>>

\* The value of a property the object does not have.
UndefinedText == <<"undefined">>
\* new Date(undefined), new Date(<unparseable>): Invalid Date.
InvalidDate == -1
\* The text of the error entry.
FallbackText == <<"Sorry, I encountered an error. Please try again.">>

\* new Date(x) of a server time stamp.
NewDate(d, k) == IF k \in DOMAIN d THEN d[k] ELSE InvalidDate
\* response.data.response
TextOf(d, k) == IF k \in DOMAIN d THEN d[k] ELSE UndefinedText
\* response.data.tools_used || []
ToolsOf(d) == IF "tools_used" \in DOMAIN d THEN d.tools_used ELSE <<>>

\* ------------------------------------------------ the remote service
\* Bodies of a 2xx answer to POST /api/chat: well formed (tools_used is
\* optional), or an object of another shape. The time stamps are the
\* server's: its clock is not the client's.
ChatBodies ==
    { [response |-> <<"pong">>, timestamp |-> 0, tools_used |-> <<"lookup">>],
      [response |-> <<"pong">>, timestamp |-> 1],
      [detail |-> <<"oops">>] }

\* Histories GET /api/history/{sid} may return.
HistoryEntry(r, c, t) == [role |-> r, content |-> c, timestamp |-> t]
Histories ==
    { <<>>,
      << HistoryEntry("user", <<"hi">>, 0) >>,
      << HistoryEntry("system", <<"hey">>, 1) >>,
      << HistoryEntry("user", <<"hi">>, 0), HistoryEntry("assistant", <<"hello">>, 1) >> }

VARIABLES
    mounted,       \* the mount effect has run
    messages,      \* useState([]): the thread
    input,         \* useState(''): the text of the input box
    isLoading,     \* useState(false): the busy flag
    sessionId,     \* useState(''): the session id in memory
    localStorage,  \* the 'sessionId' slot of localStorage
    now,           \* Date.now()
    historyReqs,   \* GET /api/history requests in flight
    chatReqs,      \* POST /api/chat requests in flight
    deleteReqs,    \* DELETE /api/session requests in flight
    lastOp,        \* history: the operation of the last step
    origin,        \* history: per message, the number of the send that appended it (0: not a send)
    nSends,        \* history: accepted sends so far
    nIssued,       \* history: chat requests issued so far
    nHydrations,   \* history: history requests issued since the last reload
    reloads        \* history: page reloads so far

vars == << mounted, messages, input, isLoading, sessionId, localStorage, now,
           historyReqs, chatReqs, deleteReqs, lastOp, origin, nSends, nIssued,
           nHydrations, reloads >>

Op(name, arg) == [op |-> name, arg |-> arg]

\* The component state of a freshly loaded page.
FreshPage ==
    /\ mounted = FALSE
    /\ messages = <<>>
    /\ input = <<>>
    /\ isLoading = FALSE
    /\ sessionId = NoSession
    /\ historyReqs = <<>>
    /\ chatReqs = <<>>
    /\ deleteReqs = <<>>

\* The page is loaded for the first time, or with the session id of an
\* earlier visit (made at time 0) in localStorage.
Init ==
    /\ FreshPage
    /\ localStorage \in {Null, NewSessionId(0)}
    /\ now = 1
    /\ lastOp = Op("init", <<>>)
    /\ origin = <<>>
    /\ nSends = 0
    /\ nIssued = 0
    /\ nHydrations = 0
    /\ reloads = 0

\* ------------------------------------------------------------ helpers
\* A faulty variant of AppendMsg: the new entry is put first.
AppendMsg_Prepend(prev, m) == << m >> \o prev

\* [...prev, m]
AppendMsg(prev, m) == Append(prev, m)

\* The sequence s without its i-th element.
RemoveAt(s, i) == SubSeq(s, 1, i - 1) \o SubSeq(s, i + 1, Len(s))

\* if (storedSessionId): null and '' are falsy.
Truthy(s) == s # Null /\ s # NoSession

\* A faulty variant of InputDisabled: the input box is never disabled.
InputDisabled_Never == FALSE

\* disabled={isLoading} of the input box.
InputDisabled == isLoading

\* disabled={isLoading || !input.trim()} of the send button.
SendDisabled == isLoading \/ InputIsBlank(input)


\* ------------------------------------------------------------ messages
\* { text: input, sender: 'user', timestamp: new Date() }
UserMessage == [text |-> input, sender |-> "user", timestamp |-> now]

\* A faulty variant of AiMessage: the reply is stamped with the client's
\* clock.
AiMessage_ClientTime(d) ==
    [text |-> TextOf(d, "response"), sender |-> "ai",
     timestamp |-> now, toolsUsed |-> ToolsOf(d)]

\* { text: response.data.response, sender: 'ai',
\*   timestamp: new Date(response.data.timestamp),
\*   toolsUsed: response.data.tools_used || [] }
AiMessage(d) ==
    [text |-> TextOf(d, "response"), sender |-> "ai",
     timestamp |-> NewDate(d, "timestamp"), toolsUsed |-> ToolsOf(d)]

\* The entry of the catch block.
ErrorMessage ==
    [text |-> FallbackText, sender |-> "ai", timestamp |-> now, isError |-> TRUE]

\* msg.isError ? 'error' : '' -- an absent field is falsy.
IsError(m) == "isError" \in DOMAIN m /\ m.isError

\* msg.toolsUsed of an entry (absent on user and error entries).
ToolsUsed(m) == IF "toolsUsed" \in DOMAIN m THEN m.toolsUsed ELSE <<>>

\* msg.role === 'user' ? 'user' : 'ai'
SenderOfRole(r) == IF r = "user" THEN "user" ELSE "ai"

\* response.data.history.map(msg => ({...}))
MapHistory(h) ==
    [i \in 1..Len(h) |->
        [text |-> h[i].content, sender |-> SenderOfRole(h[i].role),
         timestamp |-> NewDate(h[i], "timestamp")]]

\* ------------------------------------------------------------ actions
\* The session id the mount effect takes, given the stored slot: the
\* stored id, or a fresh one.
Resolve(stored, t) == IF Truthy(stored) THEN stored ELSE NewSessionId(t)

\* A faulty variant of Mount: the history is asked for whether the session
\* was stored or is fresh.
Mount_AlwaysLoads ==
    /\ ~mounted
    /\ mounted' = TRUE
    /\ sessionId' = Resolve(localStorage, now)
    /\ localStorage' = Resolve(localStorage, now)
    /\ historyReqs' = Append(historyReqs, [sid |-> Resolve(localStorage, now)])
    /\ nHydrations' = nHydrations + 1
    /\ lastOp' = Op("mount", <<>>)
    /\ UNCHANGED << messages, input, isLoading, now, chatReqs, deleteReqs,
                    origin, nSends, nIssued, reloads >>

\* The mount effect: resume the stored session and load its history, or
\* create and store a fresh session.
Mount ==
    /\ ~mounted
    /\ mounted' = TRUE
    /\ sessionId' = Resolve(localStorage, now)
    /\ localStorage' = Resolve(localStorage, now)
    /\ IF Truthy(localStorage)
       THEN /\ historyReqs' = Append(historyReqs, [sid |-> localStorage])
            /\ nHydrations' = nHydrations + 1
       ELSE UNCHANGED << historyReqs, nHydrations >>
    /\ lastOp' = Op("mount", <<>>)
    /\ UNCHANGED << messages, input, isLoading, now, chatReqs, deleteReqs,
                    origin, nSends, nIssued, reloads >>

\* Time passes.
Tick ==
    /\ now < MaxTime
    /\ now' = now + 1
    /\ lastOp' = Op("tick", <<>>)
    /\ UNCHANGED << mounted, messages, input, isLoading, sessionId, localStorage,
                    historyReqs, chatReqs, deleteReqs, origin, nSends, nIssued,
                    nHydrations, reloads >>

\* onChange of the input box: the user edits the text.
OnChange(t) ==
    /\ mounted
    /\ ~InputDisabled
    /\ nSends < MaxSends
    /\ t # input
    /\ input' = t
    /\ lastOp' = Op("change", <<>>)
    /\ UNCHANGED << mounted, messages, isLoading, sessionId, localStorage, now,
                    historyReqs, chatReqs, deleteReqs, origin, nSends, nIssued,
                    nHydrations, reloads >>

\* sendMessage up to its await: the guard, the optimistic append and the
\* request.
SendMessage ==
    IF InputIsBlank(input)
    THEN UNCHANGED << messages, input, isLoading, chatReqs, origin, nSends, nIssued >>
    ELSE /\ messages' = AppendMsg(messages, UserMessage)
         /\ origin' = AppendMsg(origin, nSends + 1)
         /\ input' = <<>>
         /\ isLoading' = TRUE
         /\ chatReqs' = Append(chatReqs, [message |-> input, session_id |-> sessionId])
         /\ nSends' = nSends + 1
         /\ nIssued' = nIssued + 1

\* Enter (without shift) in the input box.
HandleKeyPress ==
    /\ mounted
    /\ ~InputDisabled
    /\ SendMessage
    /\ lastOp' = Op("send", <<>>)
    /\ UNCHANGED << mounted, sessionId, localStorage, now, historyReqs, deleteReqs,
                    nHydrations, reloads >>

\* A click on the send button.
ClickSend ==
    /\ mounted
    /\ ~SendDisabled
    /\ SendMessage
    /\ lastOp' = Op("send", <<>>)
    /\ UNCHANGED << mounted, sessionId, localStorage, now, historyReqs, deleteReqs,
                    nHydrations, reloads >>

\* A faulty variant of Finally: the busy flag is not released.
Finally_NoRelease == isLoading' = isLoading

\* What the finally block does.
Finally == isLoading' = FALSE

\* The chat request resolves with a body that is an object: the try block
\* runs to its end.
ChatResolve(i, d) ==
    /\ i \in 1..Len(chatReqs)
    /\ messages' = AppendMsg(messages, AiMessage(d))
    /\ origin' = AppendMsg(origin, 0)
    /\ Finally
    /\ chatReqs' = RemoveAt(chatReqs, i)
    /\ lastOp' = Op("chatResolved", [req |-> chatReqs[i], data |-> d])
    /\ UNCHANGED << mounted, input, sessionId, localStorage, now, historyReqs,
                    deleteReqs, nSends, nIssued, nHydrations, reloads >>

\* A faulty variant of ChatFail: the catch block sends the request again.
ChatFail_Retry(i, why) ==
    /\ i \in 1..Len(chatReqs)
    /\ chatReqs' = Append(RemoveAt(chatReqs, i), chatReqs[i])
    /\ nIssued' = nIssued + 1
    /\ lastOp' = Op("chatFailed", [req |-> chatReqs[i], why |-> why])
    /\ UNCHANGED << mounted, messages, input, isLoading, sessionId, localStorage,
                    now, historyReqs, deleteReqs, origin, nSends, nHydrations,
                    reloads >>

\* The chat request fails: axios rejects (no answer, or a status outside
\* 2xx), or the body is null and reading response.data.response throws.
\* Either way the catch block runs.
ChatFail(i, why) ==
    /\ i \in 1..Len(chatReqs)
    /\ messages' = AppendMsg(messages, ErrorMessage)
    /\ origin' = AppendMsg(origin, 0)
    /\ Finally
    /\ chatReqs' = RemoveAt(chatReqs, i)
    /\ lastOp' = Op("chatFailed", [req |-> chatReqs[i], why |-> why])
    /\ UNCHANGED << mounted, input, sessionId, localStorage, now, historyReqs,
                    deleteReqs, nSends, nIssued, nHydrations, reloads >>

\* The ways a chat request ends in the catch block.
ChatFailures == {"rejected", "nullBody"}


\* Bodies of a 2xx answer to GET /api/history/{sid}.
HistoryBodies == { [history |-> h] : h \in Histories } \cup { [detail |-> <<"oops">>] }

\* A faulty variant of HasHistory: the length is not looked at.
HasHistory_AnyLength(d) == "history" \in DOMAIN d

\* response.data.history && response.data.history.length > 0
HasHistory(d) == "history" \in DOMAIN d /\ Len(d.history) > 0

\* A faulty variant of Hydrated: the history is added to the thread.
Hydrated_Appends(prev, d) ==
    IF HasHistory(d) THEN prev \o MapHistory(d.history) ELSE prev

\* The thread loadHistory leaves: setMessages(history.map(...)) when there
\* is a history, the thread as it was otherwise.
Hydrated(prev, d) == IF HasHistory(d) THEN MapHistory(d.history) ELSE prev

\* loadHistory after its await, the request resolved with an object body.
HistoryResolve(i, d) ==
    /\ i \in 1..Len(historyReqs)
    /\ messages' = Hydrated(messages, d)
    /\ origin' = IF HasHistory(d) THEN [k \in 1..Len(d.history) |-> 0] ELSE origin
    /\ historyReqs' = RemoveAt(historyReqs, i)
    /\ lastOp' = Op("historyResolved", [req |-> historyReqs[i], data |-> d])
    /\ UNCHANGED << mounted, input, isLoading, sessionId, localStorage, now,
                    chatReqs, deleteReqs, nSends, nIssued, nHydrations, reloads >>

\* A faulty variant of HistoryFail: the catch block shows the error entry,
\* as that of sendMessage does.
HistoryFail_ErrorEntry(i, why) ==
    /\ i \in 1..Len(historyReqs)
    /\ messages' = AppendMsg(messages, ErrorMessage)
    /\ origin' = AppendMsg(origin, 0)
    /\ historyReqs' = RemoveAt(historyReqs, i)
    /\ lastOp' = Op("historyFailed", [req |-> historyReqs[i], why |-> why])
    /\ UNCHANGED << mounted, input, isLoading, sessionId, localStorage, now,
                    chatReqs, deleteReqs, nSends, nIssued, nHydrations, reloads >>

\* A faulty variant of HistoryFail: a session whose history cannot be
\* loaded is given up for a fresh one.
HistoryFail_NewSession(i, why) ==
    /\ i \in 1..Len(historyReqs)
    /\ sessionId' = NewSessionId(now)
    /\ localStorage' = NewSessionId(now)
    /\ historyReqs' = RemoveAt(historyReqs, i)
    /\ lastOp' = Op("historyFailed", [req |-> historyReqs[i], why |-> why])
    /\ UNCHANGED << mounted, messages, input, isLoading, now, chatReqs,
                    deleteReqs, origin, nSends, nIssued, nHydrations, reloads >>

\* loadHistory after its await, the request failed (or its body is null):
\* the catch block only logs.
HistoryFail(i, why) ==
    /\ i \in 1..Len(historyReqs)
    /\ historyReqs' = RemoveAt(historyReqs, i)
    /\ lastOp' = Op("historyFailed", [req |-> historyReqs[i], why |-> why])
    /\ UNCHANGED << mounted, messages, input, isLoading, sessionId, localStorage,
                    now, chatReqs, deleteReqs, origin, nSends, nIssued,
                    nHydrations, reloads >>

\* clearChat up to its await: the user confirms the dialog (which takes
\* time: window.confirm blocks until the user answers) and the deletion of
\* the current session is requested.
ClearChat ==
    /\ mounted
    /\ now < MaxTime
    /\ now' = now + 1
    /\ deleteReqs' = Append(deleteReqs, [sid |-> sessionId])
    /\ lastOp' = Op("clear", <<>>)
    /\ UNCHANGED << mounted, messages, input, isLoading, sessionId, localStorage,
                    historyReqs, chatReqs, origin, nSends, nIssued, nHydrations,
                    reloads >>

\* clearChat, the user dismisses the dialog: nothing happens.
ClearChatDismissed ==
    /\ mounted
    /\ now < MaxTime
    /\ now' = now + 1
    /\ lastOp' = Op("clearDismissed", <<>>)
    /\ UNCHANGED << mounted, messages, input, isLoading, sessionId, localStorage,
                    historyReqs, chatReqs, deleteReqs, origin, nSends, nIssued,
                    nHydrations, reloads >>

\* A faulty variant of DeleteResolve: the fresh session id is not stored.
DeleteResolve_NoStore(i) ==
    /\ i \in 1..Len(deleteReqs)
    /\ messages' = <<>>
    /\ origin' = <<>>
    /\ localStorage' = Null
    /\ sessionId' = NewSessionId(now)
    /\ deleteReqs' = RemoveAt(deleteReqs, i)
    /\ lastOp' = Op("cleared", [req |-> deleteReqs[i]])
    /\ UNCHANGED << mounted, input, isLoading, now, historyReqs, chatReqs,
                    nSends, nIssued, nHydrations, reloads >>

\* clearChat after its await, the deletion succeeded: the thread is
\* emptied and a fresh session id is stored.
DeleteResolve(i) ==
    /\ i \in 1..Len(deleteReqs)
    /\ messages' = <<>>
    /\ origin' = <<>>
    /\ localStorage' = NewSessionId(now)
    /\ sessionId' = NewSessionId(now)
    /\ deleteReqs' = RemoveAt(deleteReqs, i)
    /\ lastOp' = Op("cleared", [req |-> deleteReqs[i]])
    /\ UNCHANGED << mounted, input, isLoading, now, historyReqs, chatReqs,
                    nSends, nIssued, nHydrations, reloads >>

\* clearChat after its await, the deletion failed: the catch block only
\* logs.
DeleteFail(i) ==
    /\ i \in 1..Len(deleteReqs)
    /\ deleteReqs' = RemoveAt(deleteReqs, i)
    /\ lastOp' = Op("clearFailed", [req |-> deleteReqs[i]])
    /\ UNCHANGED << mounted, messages, input, isLoading, sessionId, localStorage,
                    now, historyReqs, chatReqs, origin, nSends, nIssued,
                    nHydrations, reloads >>

\* The page is reloaded: the component state is built anew, the requests
\* in flight lose their continuations, localStorage stays.
Reload ==
    /\ mounted
    /\ reloads < MaxReloads
    /\ mounted' = FALSE
    /\ messages' = <<>>
    /\ input' = <<>>
    /\ isLoading' = FALSE
    /\ sessionId' = NoSession
    /\ historyReqs' = <<>>
    /\ chatReqs' = <<>>
    /\ deleteReqs' = <<>>
    /\ reloads' = reloads + 1
    /\ origin' = <<>>
    /\ nHydrations' = 0
    /\ lastOp' = Op("reload", <<>>)
    /\ UNCHANGED << localStorage, now, nSends, nIssued >>

Next ==
    \/ Mount
    \/ Tick
    \/ \E t \in Texts : OnChange(t)
    \/ HandleKeyPress
    \/ ClickSend
    \/ \E i \in 1..Len(chatReqs) : \E d \in ChatBodies : ChatResolve(i, d)
    \/ \E i \in 1..Len(chatReqs) : \E why \in ChatFailures : ChatFail(i, why)
    \/ \E i \in 1..Len(historyReqs) : \E d \in HistoryBodies : HistoryResolve(i, d)
    \/ \E i \in 1..Len(historyReqs) : \E why \in ChatFailures : HistoryFail(i, why)
    \/ ClearChat
    \/ ClearChatDismissed
    \/ \E i \in 1..Len(deleteReqs) : DeleteResolve(i)
    \/ \E i \in 1..Len(deleteReqs) : DeleteFail(i)
    \/ Reload

Spec == Init /\ [][Next]_vars


\* ------------------------------------------------------------ claims
\* A text with nothing but white space in it (the empty text included).
OnlyWhiteSpace(s) == \A k \in 1..Len(s) : s[k] = " "

\* The step is a call of sendMessage.
SendStep == lastOp'.op = "send"

\* The step is the continuation of sendMessage after its await.
SettleStep == lastOp'.op \in {"chatResolved", "chatFailed"}

\* The step of an accepted send: the user message with the text as typed
\* is appended, one request is issued and the busy flag is set.
Accepted ==
    /\ messages' = Append(messages, [text |-> input, sender |-> "user", timestamp |-> now])
    /\ Len(chatReqs') = Len(chatReqs) + 1
    /\ chatReqs'[Len(chatReqs')].message = input
    /\ isLoading'

\* C1: in every reachable state at most one chat request is outstanding,
\* and the busy flag is set exactly while one is.
C1_AtMostOneSending ==
    /\ Len(chatReqs) <= 1
    /\ isLoading <=> (Len(chatReqs) = 1)

\* A second exchange is in flight after the first one was reconciled.
C1_Witness ==
    /\ isLoading
    /\ Len(chatReqs) = 1
    /\ nSends = 2
    /\ lastOp.op = "send"

\* C3: a send whose text is empty or only white space changes neither the
\* thread nor the busy flag and issues no request.
C3_BlankSendIsNoOp ==
    [][SendStep /\ OnlyWhiteSpace(input)
          => UNCHANGED << messages, isLoading, chatReqs, nIssued, input >>]_vars

\* A send was just called on a text of one blank.
C3_Witness ==
    /\ lastOp.op = "send"
    /\ input = <<" ">>
    /\ messages = <<>>
    /\ ~isLoading

\* C4: the step that reconciles a response or a failure leaves the busy
\* flag false, the input box is usable whenever the flag is false, and a
\* send of a non-blank text made with the flag false is accepted.
C4_BusyReleased ==
    [][/\ SettleStep => ~isLoading'
       /\ (mounted' /\ ~isLoading') => ~InputDisabled'
       /\ (SendStep /\ ~isLoading /\ ~OnlyWhiteSpace(input)) => Accepted]_vars

\* A send was accepted after the previous exchange ended in the error
\* entry.
C4_Witness ==
    /\ lastOp.op = "send"
    /\ isLoading
    /\ Len(messages) = 3
    /\ IsError(messages[2])
    /\ messages[3].sender = "user"


\* A body of the shape the chat endpoint documents.
WellFormed(d) == "response" \in DOMAIN d /\ "timestamp" \in DOMAIN d

\* The error entry the claims describe.
ErrorEntry(m) ==
    /\ m.sender = "ai"
    /\ m.text = FallbackText
    /\ IsError(m)

\* C5: when the remote call of an accepted send fails (the request is
\* rejected, or the answer is malformed), the step that reconciles it
\* appends exactly one entry, the error entry, after the user message.
C5_FailureAppendsErrorEntry ==
    [][(\/ lastOp'.op = "chatFailed"
        \/ (lastOp'.op = "chatResolved" /\ ~WellFormed(lastOp'.arg.data)))
          => /\ Len(messages') = Len(messages) + 1
             /\ SubSeq(messages', 1, Len(messages)) = messages
             /\ ErrorEntry(messages'[Len(messages')])]_vars

\* C6: when the remote call of an accepted send succeeds with a well-formed
\* body, the step that reconciles it appends exactly one assistant entry
\* with the body's text, the server's time stamp, the server's tool list
\* (empty when absent) and no error flag; the send step before it appended
\* the user message.
C6_SuccessAppendsReply ==
    [][/\ (lastOp'.op = "chatResolved" /\ WellFormed(lastOp'.arg.data))
          => LET d == lastOp'.arg.data
                 m == messages'[Len(messages')]
             IN  /\ Len(messages') = Len(messages) + 1
                 /\ SubSeq(messages', 1, Len(messages)) = messages
                 /\ m.sender = "ai"
                 /\ m.text = d.response
                 /\ m.timestamp = d.timestamp
                 /\ ToolsUsed(m) = (IF "tools_used" \in DOMAIN d THEN d.tools_used ELSE <<>>)
                 /\ ~IsError(m)
       /\ (SendStep /\ ~OnlyWhiteSpace(input)) => Accepted]_vars

\* The thread is the user message followed by the reply with the tool list.
C6_Witness ==
    /\ lastOp.op = "chatResolved"
    /\ Len(messages) = 2
    /\ messages[1].sender = "user"
    /\ messages[1].text = << " ", "a" >>
    /\ messages[2].sender = "ai"
    /\ messages[2].text = << "pong" >>
    /\ messages[2].timestamp = 0
    /\ ToolsUsed(messages[2]) = << "lookup" >>

\* The numbers of the sends whose user messages are in the thread, in
\* thread order.
RECURSIVE SendsIn(_)
SendsIn(o) ==
    IF o = <<>> THEN <<>>
    ELSE IF Head(o) = 0 THEN SendsIn(Tail(o)) ELSE << Head(o) >> \o SendsIn(Tail(o))

\* The user messages of sends stand in the order of the calls.
InCallOrder(o) ==
    /\ \A i, j \in 1..Len(SendsIn(o)) : i < j => SendsIn(o)[i] < SendsIn(o)[j]

\* C7: the user messages of the accepted sends stand in the thread in the
\* order of the calls, and a reconciliation step only appends: it puts
\* nothing before a message that is already there.
C7_UserMessagesInCallOrder ==
    [][/\ Len(origin') = Len(messages')
       /\ \A i \in 1..Len(origin') : origin'[i] # 0 => messages'[i].sender = "user"
       /\ InCallOrder(origin')
       /\ SettleStep => SubSeq(messages', 1, Len(messages)) = messages]_vars

\* The user messages of two sends are in the thread, the reply to the
\* first between them.
C7_Witness ==
    /\ Len(origin) >= 3
    /\ SendsIn(origin) = << 1, 2 >>
    /\ lastOp.op \in {"chatResolved", "chatFailed"}

\* C8: a user message appended by a send is still in the thread after every
\* step other than the emptying of the thread by clearChat (and a reload
\* of the page).
C8_UserMessageStays ==
    [][lastOp'.op \notin {"cleared", "reload"}
          => \A i \in 1..Len(origin) : origin[i] # 0 =>
                \E j \in 1..Len(origin') :
                    origin'[j] = origin[i] /\ messages'[j] = messages[i]]_vars

\* C9: the result of a chat request whose session id is no longer the
\* current one is discarded: the step that reconciles it appends nothing.
C9_StaleResultDiscarded ==
    [][(SettleStep /\ lastOp'.arg.req.session_id # sessionId)
          => messages' = messages]_vars

\* C10: when clearChat completes, the thread is empty, the stored session
\* id differs from the one stored when clearChat was called, and resolving
\* the session afterwards gives the stored id.
C10_ClearYieldsNewSession ==
    [][lastOp'.op \in {"cleared", "clearFailed"}
          => /\ messages' = <<>>
             /\ localStorage' # lastOp'.arg.req.sid
             /\ Truthy(localStorage')
             /\ Resolve(localStorage', now') = localStorage']_vars


\* C11: when the deletion request of clearChat fails, the thread is emptied
\* all the same, the stored and the in-memory session id are replaced by a
\* fresh one, and no error entry is added.
C11_ClearDespiteFailedDeletion ==
    [][lastOp'.op = "clearFailed"
          => /\ messages' = <<>>
             /\ Truthy(localStorage')
             /\ localStorage' # lastOp'.arg.req.sid
             /\ sessionId' = localStorage']_vars

\* The thread a history stands for: entry by entry, in the server's order.
RECURSIVE ThreadOf(_)
ThreadOf(h) ==
    IF h = <<>> THEN <<>>
    ELSE << [text |-> Head(h).content,
             sender |-> (IF Head(h).role = "user" THEN "user" ELSE "ai"),
             timestamp |-> Head(h).timestamp] >> \o ThreadOf(Tail(h))

\* The step is a history request resolving with a body that holds a history.
HydrateStep == lastOp'.op = "historyResolved" /\ "history" \in DOMAIN lastOp'.arg.data

\* C12 as claimed: after a successful hydrate the thread is the server's
\* history mapped entry by entry, whatever it held before and for every
\* length of the history, the empty one included.
C12_HydrateReplacesAlways ==
    [][HydrateStep => messages' = ThreadOf(lastOp'.arg.data.history)]_vars

\* C12 as amended: after a successful hydrate with a history that is not
\* empty the thread is the history mapped entry by entry, whatever it held
\* before; with an empty history the thread is left as it was.
C12_HydrateReplacesUnlessEmpty ==
    [][HydrateStep =>
          LET h == lastOp'.arg.data.history
          IN  /\ h # <<>> => messages' = ThreadOf(h)
              /\ h = <<>> => messages' = messages]_vars

\* A thread that held a user message of a send is now the history of two
\* entries.
C12_Witness ==
    /\ lastOp.op = "historyResolved"
    /\ nSends >= 1
    /\ Len(messages) = 2
    /\ messages[1].sender = "user" /\ messages[1].timestamp = 0
    /\ messages[2].sender = "ai" /\ messages[2].timestamp = 1
    /\ messages[2].text = << "hello" >>


\* C13: right after a hydrate, a second hydrate with the same answer leaves
\* the thread as the first one left it, and a history that is not empty is
\* in the thread exactly once.
C13_HydrateIdempotent ==
    lastOp.op = "historyResolved" =>
        LET d == lastOp.arg.data
        IN  /\ Hydrated(messages, d) = messages
            /\ ("history" \in DOMAIN d /\ d.history # <<>>)
                  => /\ Len(messages) = Len(d.history)
                     /\ Hydrated(Hydrated(messages, d), d) = ThreadOf(d.history)

\* The thread is the history of one entry, just hydrated.
C13_Witness ==
    /\ lastOp.op = "historyResolved"
    /\ "history" \in DOMAIN lastOp.arg.data
    /\ Len(lastOp.arg.data.history) = 1
    /\ messages = << [text |-> << "hey" >>, sender |-> "ai", timestamp |-> 1] >>

\* C14: when the history request fails, the thread, the busy flag and the
\* session id (in memory and stored) are left as they were: no error entry
\* is shown.
C14_HydrateFailureSilent ==
    [][lastOp'.op = "historyFailed"
          => UNCHANGED << messages, isLoading, sessionId, localStorage >>]_vars

\* The history request failed while a send was in flight: the thread still
\* is that send's user message.
C14_Witness ==
    /\ lastOp.op = "historyFailed"
    /\ isLoading
    /\ Len(messages) = 1
    /\ messages[1].sender = "user"
    /\ sessionId = NewSessionId(0)


\* C15: in every reachable state the time stamps of the thread do not
\* decrease in thread order (looked at only where both are valid dates: an
\* Invalid Date compares with nothing).
C15_TimestampsNonDecreasing ==
    \A i, j \in 1..Len(messages) :
        (/\ i < j
         /\ messages[i].timestamp # InvalidDate
         /\ messages[j].timestamp # InvalidDate)
            => messages[i].timestamp <= messages[j].timestamp

\* The thread before the step is a prefix of the thread after it.
OnlyAppends == SubSeq(messages', 1, Len(messages)) = messages /\ Len(messages') >= Len(messages)

\* C16: every step of a send (the optimistic append, the reply, the error
\* entry) leaves the messages already in the thread unchanged and in place.
C16_ReconciliationOnlyAppends ==
    [][(SendStep \/ SettleStep) => OnlyAppends]_vars

\* An error entry was just appended after a user message.
C16_Witness ==
    /\ lastOp.op = "chatFailed"
    /\ Len(messages) = 2
    /\ messages[1].sender = "user"
    /\ IsError(messages[2])


\* C17: a history request is issued only by the mount effect, only for a
\* session id found in localStorage, and at most once per page load; the
\* session clearChat creates issues none.
C17_HydrationOncePerActivation ==
    [][/\ nHydrations' <= 1
       /\ Len(historyReqs') > Len(historyReqs)
             => /\ lastOp'.op = "mount"
                /\ Truthy(localStorage)
                /\ nHydrations = 0
                /\ historyReqs' = Append(historyReqs, [sid |-> localStorage])
       /\ lastOp'.op = "cleared" => historyReqs' = historyReqs]_vars

\* A stored session was resumed and hydrated, then clearChat made a fresh
\* one, for which no history request is in flight.
C17_Witness ==
    /\ lastOp.op = "cleared"
    /\ nHydrations = 1
    /\ historyReqs = <<>>
    /\ sessionId = NewSessionId(now)

\* C18: once mounted, the session id in memory and the stored one are
\* replaced only by clearChat: a send, the reconciliation of its reply or
\* failure, and a hydrate that succeeds or fails leave both unchanged.
C18_SessionReplacedOnlyByClear ==
    [][/\ lastOp'.op \in {"send", "chatResolved", "chatFailed",
                          "historyResolved", "historyFailed"}
             => UNCHANGED << sessionId, localStorage >>
       /\ (mounted /\ mounted' /\ << sessionId, localStorage >>' # << sessionId, localStorage >>)
             => lastOp'.op = "cleared"]_vars

\* The resumed session is still the current one after its hydration and a
\* whole exchange.
C18_Witness ==
    /\ lastOp.op = "chatResolved"
    /\ nHydrations = 1
    /\ historyReqs = <<>>
    /\ sessionId = NewSessionId(0)
    /\ localStorage = NewSessionId(0)

\* C19: each accepted send issues exactly one chat request and a failure
\* issues none: the requests issued are as many as the accepted sends.
C19_NoAutomaticRetry ==
    [][/\ nIssued' = nSends'
       /\ Len(chatReqs') <= nIssued'
       /\ SettleStep => (Len(chatReqs') = Len(chatReqs) - 1 /\ nIssued' = nIssued)]_vars

\* An exchange has failed and no request is in flight.
C19_Witness ==
    /\ lastOp.op = "chatFailed"
    /\ nSends = 1
    /\ nIssued = 1
    /\ chatReqs = <<>>
    /\ ~isLoading

\* C20: once mounted, localStorage holds a session id, the same as the one
\* in memory, and every chat request carries the id that localStorage holds
\* when the request is issued.
C20_PersistedIdIsCurrent ==
    [][/\ mounted' => (Truthy(localStorage') /\ localStorage' = sessionId')
       /\ Len(chatReqs') > Len(chatReqs)
             => chatReqs'[Len(chatReqs')].session_id = localStorage]_vars

\* A send was issued while clearChat waits for its deletion request.
C20_Witness ==
    /\ lastOp.op = "send"
    /\ Len(deleteReqs) = 1
    /\ Len(chatReqs) = 1
    /\ chatReqs[1].session_id = localStorage

=============================================================================
